---- MODULE Spec2Model ----
(***************************************************************************)
(* Dolphin document-parser API server (src/api_server.py).                 *)
(*                                                                         *)
(* The model covers the startup (lifespan), the auth gate, the six HTTP    *)
(* endpoints and the page orchestration process_elements_api.  One request *)
(* is handled by one action; its response stays in `resp` until it has been*)
(* delivered to the client.                                                *)
(***************************************************************************)
EXTENDS Integers, Sequences, FiniteSets, TLC

VARIABLES
    phase,      \* "boot" | "serving" | "responded" | "failed", and for a lone call of
                \* process_elements_api "elements" | "elements_returned" | "elements_raised"
    API_KEYS,   \* api_server.API_KEYS, the process-wide key set
    model,      \* api_server.model: "None" or "DOLPHIN"
    req,        \* the request being answered
    inf,        \* what the model and the image libraries did for this request
    resp,       \* the response the client gets
    calls       \* the decoding and model.chat invocations made for this request

vars == <<phase, API_KEYS, model, req, inf, resp, calls>>

(***************************************************************************)
(* Bounds and input domains                                                *)
(***************************************************************************)
\* layout elements of a page given to process_elements_api on its own
MaxElems == 3

\* layout elements of a page sent through an HTTP endpoint
MaxPageElems == 2

\* the key sets the environment (API_KEYS / API_KEYS_FILE) can configure
EnvKeyLists == {<<>>, <<"k1">>, <<"k1", "k1">>}

\* one test page: a 3x1 image letterboxed into a 3x3 padded image
Dims == [padded_w |-> 3, padded_h |-> 3, original_w |-> 3, original_h |-> 1,
         left |-> 0, top |-> 1]

\* boxes the layout pass reports, in padded coordinates: two boxes inside the
\* page and one fully outside of it
Boxes == {<<0, 1, 1, 2>>, <<1, 0, 3, 3>>, <<4, 4, 6, 6>>}

\* the whole decoded image, as handed to a single model.chat call (a call
\* record's max_batch_size is 0 when the argument is not passed)
FullImage == <<0, 0, Dims.original_w, Dims.original_h>>

Labels == {"fig", "tab", "para"}

\* a layout element: box, label, and whether handling its coordinates or its
\* crop raises (lines 206-237)
LayoutElems ==
    [bbox : Boxes, label : Labels, raises : {FALSE}]
    \cup [bbox : {<<0, 1, 1, 2>>}, label : {"para"}, raises : {TRUE}]

RECURSIVE SeqsUpTo(_, _)
SeqsUpTo(S, n) ==
    IF n = 0 THEN {<<>>}
    ELSE LET shorter == SeqsUpTo(S, n - 1)
         IN  shorter \cup {Append(s, e) : s \in {t \in shorter : Len(t) = n - 1}, e \in S}

Layouts == SeqsUpTo(LayoutElems, MaxElems)

PageLayouts == SeqsUpTo(LayoutElems, MaxPageElems)

(***************************************************************************)
(* Strings as character sequences, so that str.strip() does something      *)
(***************************************************************************)
IsSpace(c) == c \in {" ", "\n"}

RECURSIVE LStrip(_)
LStrip(s) == IF s # <<>> /\ IsSpace(Head(s)) THEN LStrip(Tail(s)) ELSE s

RECURSIVE RStrip(_)
RStrip(s) ==
    IF s # <<>> /\ IsSpace(s[Len(s)]) THEN RStrip(SubSeq(s, 1, Len(s) - 1)) ELSE s

Strip(s) == RStrip(LStrip(s))

(***************************************************************************)
(* utils.process_coordinates and the crop                                  *)
(***************************************************************************)
Clamp(v, lo, hi) == IF v < lo THEN lo ELSE IF v > hi THEN hi ELSE v

\* crop box clamped to the padded image, the box in original-image
\* coordinates, and the new previous_box
process_coordinates(bbox, dims, previous_box) ==
    LET x1 == Clamp(bbox[1], 0, dims.padded_w)
        y1 == Clamp(bbox[2], 0, dims.padded_h)
        x2 == Clamp(bbox[3], 0, dims.padded_w)
        y2 == Clamp(bbox[4], 0, dims.padded_h)
    IN  [crop |-> <<x1, y1, x2, y2>>,
         orig |-> <<Clamp(x1 - dims.left, 0, dims.original_w),
                    Clamp(y1 - dims.top, 0, dims.original_h),
                    Clamp(x2 - dims.left, 0, dims.original_w),
                    Clamp(y2 - dims.top, 0, dims.original_h)>>,
         previous_box |-> <<x1, y1, x2, y2>>]

\* padded_image[y1:y2, x1:x2].size of a 3-channel image
CroppedSize(c) ==
    LET w == IF c[3] > c[1] THEN c[3] - c[1] ELSE 0
        h == IF c[4] > c[2] THEN c[4] - c[2] ELSE 0
    IN  h * w * 3

TablePrompt == "Parse the table in the image."
TextPrompt == "Read text in the image."
LayoutPrompt == "Parse the reading order of this document."

(***************************************************************************)
(* chat.DOLPHIN.chat: one string for a single prompt, one string per crop  *)
(* in input order for a batch.  `ws` is the whitespace the model puts      *)
(* around its answer.                                                      *)
(***************************************************************************)
Whitespace == {"none", "around"}

Transcribe(prompt, image, ws) ==
    LET core == <<IF prompt = TablePrompt THEN "<table>" ELSE "<text>", ToString(image)>>
    IN  IF ws = "around" THEN <<" ">> \o core \o <<"\n">> ELSE core

ModelChat(prompts, crops, ws) ==
    [i \in 1..Len(crops) |-> Transcribe(prompts[i], crops[i], ws)]

(***************************************************************************)
(* process_elements_api                                                    *)
(***************************************************************************)
\* list.sort(key=reading_order): a stable insertion sort
RECURSIVE InsertByReadingOrder(_, _)
InsertByReadingOrder(sorted, e) ==
    IF sorted = <<>> THEN <<e>>
    ELSE IF sorted[Len(sorted)].reading_order <= e.reading_order THEN Append(sorted, e)
    ELSE Append(InsertByReadingOrder(SubSeq(sorted, 1, Len(sorted) - 1), e),
                sorted[Len(sorted)])

\* the sort left out
SortByReadingOrder_Unsorted(l) == l

RECURSIVE SortByReadingOrder(_)
SortByReadingOrder(l) ==
    IF l = <<>> THEN <<>>
    ELSE InsertByReadingOrder(SortByReadingOrder(SubSeq(l, 1, Len(l) - 1)), l[Len(l)])

CollectInit ==
    [text_table_elements |-> <<>>, figure_results |-> <<>>,
     previous_box |-> <<>>, reading_order |-> 0]

\* the iteration without the `cropped.size > 0` test
CollectStep_NoSizeCheck(acc, e, dims) ==
    IF e.raises
    THEN acc
    ELSE LET pc == process_coordinates(e.bbox, dims, acc.previous_box)
         IN  [previous_box |-> pc.previous_box,
              reading_order |-> acc.reading_order + 1,
              figure_results |->
                  IF e.label = "fig"
                  THEN Append(acc.figure_results,
                              [label |-> e.label, bbox |-> pc.orig, text |-> <<>>,
                               reading_order |-> acc.reading_order])
                  ELSE acc.figure_results,
              text_table_elements |->
                  IF e.label # "fig"
                  THEN Append(acc.text_table_elements,
                              [crop |-> pc.crop,
                               prompt |-> IF e.label = "tab" THEN TablePrompt ELSE TextPrompt,
                               label |-> e.label, bbox |-> pc.orig,
                               reading_order |-> acc.reading_order])
                  ELSE acc.text_table_elements]

\* the iteration with `reading_order += 1` inside the `cropped.size > 0` branch
CollectStep_CountInsideBranch(acc, e, dims) ==
    IF e.raises
    THEN acc
    ELSE LET pc == process_coordinates(e.bbox, dims, acc.previous_box)
             nonEmpty == CroppedSize(pc.crop) > 0
         IN  [previous_box |-> pc.previous_box,
              reading_order |-> IF nonEmpty THEN acc.reading_order + 1 ELSE acc.reading_order,
              figure_results |->
                  IF nonEmpty /\ e.label = "fig"
                  THEN Append(acc.figure_results,
                              [label |-> e.label, bbox |-> pc.orig, text |-> <<>>,
                               reading_order |-> acc.reading_order])
                  ELSE acc.figure_results,
              text_table_elements |->
                  IF nonEmpty /\ e.label # "fig"
                  THEN Append(acc.text_table_elements,
                              [crop |-> pc.crop,
                               prompt |-> IF e.label = "tab" THEN TablePrompt ELSE TextPrompt,
                               label |-> e.label, bbox |-> pc.orig,
                               reading_order |-> acc.reading_order])
                  ELSE acc.text_table_elements]

\* the iteration that tests the label against "table" when it picks the prompt
CollectStep_TableLabel(acc, e, dims) ==
    IF e.raises
    THEN acc
    ELSE LET pc == process_coordinates(e.bbox, dims, acc.previous_box)
             nonEmpty == CroppedSize(pc.crop) > 0
         IN  [previous_box |-> pc.previous_box,
              reading_order |-> acc.reading_order + 1,
              figure_results |->
                  IF nonEmpty /\ e.label = "fig"
                  THEN Append(acc.figure_results,
                              [label |-> e.label, bbox |-> pc.orig, text |-> <<>>,
                               reading_order |-> acc.reading_order])
                  ELSE acc.figure_results,
              text_table_elements |->
                  IF nonEmpty /\ e.label # "fig"
                  THEN Append(acc.text_table_elements,
                              [crop |-> pc.crop,
                               prompt |-> IF e.label = "table" THEN TablePrompt ELSE TextPrompt,
                               label |-> e.label, bbox |-> pc.orig,
                               reading_order |-> acc.reading_order])
                  ELSE acc.text_table_elements]

\* one iteration of the loop over the layout (lines 205-237)
CollectStep(acc, e, dims) ==
    IF e.raises
    THEN acc
    ELSE LET pc == process_coordinates(e.bbox, dims, acc.previous_box)
             nonEmpty == CroppedSize(pc.crop) > 0
         IN  [previous_box |-> pc.previous_box,
              reading_order |-> acc.reading_order + 1,
              figure_results |->
                  IF nonEmpty /\ e.label = "fig"
                  THEN Append(acc.figure_results,
                              [label |-> e.label, bbox |-> pc.orig, text |-> <<>>,
                               reading_order |-> acc.reading_order])
                  ELSE acc.figure_results,
              text_table_elements |->
                  IF nonEmpty /\ e.label # "fig"
                  THEN Append(acc.text_table_elements,
                              [crop |-> pc.crop,
                               prompt |-> IF e.label = "tab" THEN TablePrompt ELSE TextPrompt,
                               label |-> e.label, bbox |-> pc.orig,
                               reading_order |-> acc.reading_order])
                  ELSE acc.text_table_elements]

RECURSIVE Collect(_, _)
Collect(layout, dims) ==
    IF layout = <<>> THEN CollectInit
    ELSE CollectStep(Collect(SubSeq(layout, 1, Len(layout) - 1), dims),
                     layout[Len(layout)], dims)

\* the batched call of line 248
BatchCall(elems) ==
    [prompts |-> [i \in 1..Len(elems) |-> elems[i].prompt],
     crops |-> [i \in 1..Len(elems) |-> elems[i].crop],
     max_batch_size |-> 1]

\* the reassembly that pairs the results with the queue in reverse
Reassemble_Misaligned(elems, batch_results) ==
    [i \in 1..Len(batch_results) |->
        [label |-> elems[Len(batch_results) + 1 - i].label,
         bbox |-> elems[Len(batch_results) + 1 - i].bbox,
         text |-> Strip(batch_results[i]),
         reading_order |-> elems[Len(batch_results) + 1 - i].reading_order]]

\* lines 251-258
Reassemble(elems, batch_results) ==
    [i \in 1..Len(batch_results) |->
        [label |-> elems[i].label, bbox |-> elems[i].bbox,
         text |-> Strip(batch_results[i]), reading_order |-> elems[i].reading_order]]

\* the loop without its try/except: an element that raises aborts the call
process_elements_api_NoTry(layout, dims, max_batch_size, ws, fault) ==
    LET acc == Collect(layout, dims)
        elems == acc.text_table_elements
        call == BatchCall(elems)
    IN  IF \E k \in 1..Len(layout) : layout[k].raises
        THEN [raised |-> TRUE, chats |-> <<>>, results |-> <<>>]
        ELSE IF elems = <<>>
        THEN [raised |-> FALSE, chats |-> <<>>,
              results |-> SortByReadingOrder(acc.figure_results)]
        ELSE IF fault = "stage2"
        THEN [raised |-> TRUE, chats |-> <<call>>, results |-> <<>>]
        ELSE [raised |-> FALSE, chats |-> <<call>>,
              results |-> SortByReadingOrder(
                  acc.figure_results
                  \o Reassemble(elems, ModelChat(call.prompts, call.crops, ws)))]

\* the call without line 247: the caller's max_batch_size is passed on
process_elements_api_CallerBatch(layout, dims, max_batch_size, ws, fault) ==
    LET acc == Collect(layout, dims)
        elems == acc.text_table_elements
        call == [BatchCall(elems) EXCEPT !.max_batch_size = max_batch_size]
    IN  IF elems = <<>>
        THEN [raised |-> FALSE, chats |-> <<>>,
              results |-> SortByReadingOrder(acc.figure_results)]
        ELSE IF fault = "stage2"
        THEN [raised |-> TRUE, chats |-> <<call>>, results |-> <<>>]
        ELSE [raised |-> FALSE, chats |-> <<call>>,
              results |-> SortByReadingOrder(
                  acc.figure_results
                  \o Reassemble(elems, ModelChat(call.prompts, call.crops, ws)))]

\* returns the sorted list, or raises when the batched call raises; `chats`
\* lists the model.chat invocations made
process_elements_api(layout, dims, max_batch_size, ws, fault) ==
    LET acc == Collect(layout, dims)
        elems == acc.text_table_elements
        call == BatchCall(elems)
    IN  IF elems = <<>>
        THEN [raised |-> FALSE, chats |-> <<>>,
              results |-> SortByReadingOrder(acc.figure_results)]
        ELSE IF fault = "stage2"
        THEN [raised |-> TRUE, chats |-> <<call>>, results |-> <<>>]
        ELSE [raised |-> FALSE, chats |-> <<call>>,
              results |-> SortByReadingOrder(
                  acc.figure_results
                  \o Reassemble(elems, ModelChat(call.prompts, call.crops, ws)))]

\* lines 180-192: any exception becomes HTTPException(500)
process_page_api(layout, dims, max_batch_size, ws, fault) ==
    LET stage1 == [prompts |-> <<LayoutPrompt>>, crops |-> <<FullImage>>, max_batch_size |-> 0]
        r == process_elements_api(layout, dims, max_batch_size, ws, fault)
    IN  IF fault = "stage1"
        THEN [raised |-> TRUE, chats |-> <<stage1>>, results |-> <<>>]
        ELSE [raised |-> r.raised, chats |-> <<stage1>> \o r.chats, results |-> r.results]

\* lines 266-294
process_element_api(element_type, ws, fault) ==
    LET prompt == IF element_type = "table" THEN TablePrompt ELSE TextPrompt
        label == IF element_type = "table" THEN "tab"
                 ELSE IF element_type = "formula" THEN "formula" ELSE "text"
        call == [prompts |-> <<prompt>>, crops |-> <<FullImage>>, max_batch_size |-> 0]
    IN  IF fault = "stage1"
        THEN [raised |-> TRUE, chats |-> <<>>, results |-> <<>>]
        ELSE IF fault = "stage2"
        THEN [raised |-> TRUE, chats |-> <<call>>, results |-> <<>>]
        ELSE [raised |-> FALSE, chats |-> <<call>>,
              results |-> <<[label |-> label,
                             text |-> Strip(Transcribe(prompt, FullImage, ws))]>>]

(***************************************************************************)
(* Requests, responses                                                     *)
(***************************************************************************)
NoHeader == [scheme |-> "", credentials |-> ""]

\* Authorization and X-API-Key headers a client sends
AuthCases ==
    {[authorization |-> NoHeader, x_api_key |-> ""],
     [authorization |-> [scheme |-> "Bearer", credentials |-> "k1"], x_api_key |-> ""],
     [authorization |-> [scheme |-> "Bearer", credentials |-> "k2"], x_api_key |-> ""],
     [authorization |-> [scheme |-> "Basic", credentials |-> "k1"], x_api_key |-> ""],
     [authorization |-> NoHeader, x_api_key |-> "k1"]}

\* image_base64 as its parts around ',': an optional data-URL prefix and the payload
Base64Inputs ==
    {<<"b64(image)">>, <<"data:image/png;base64", "b64(image)">>,
     <<"b64(garbage)">>, <<"not-base64">>, <<"data:image/png;base64">>}

Files ==
    [filename : {"", "a.png", "a.txt"}, content_type : {"", "image/png", "text/plain"},
     contents : {"empty", "image", "garbage"}]

NoFile == [filename |-> "", content_type |-> "", contents |-> "empty"]

ElementTypes == {"text", "table", "formula", "diagram"}

BatchSizes == {1, 4}

Faults == {"none", "stage1", "stage2"}

NoReq ==
    [endpoint |-> "", auth |-> [authorization |-> NoHeader, x_api_key |-> ""],
     image_base64 |-> <<>>, file |-> NoFile, element_type |-> "", max_batch_size |-> 0]

NoInf == [layout |-> <<>>, ws |-> "none", fault |-> "none"]

NoResp ==
    [status |-> 0, body |-> "", success |-> FALSE, results |-> <<>>, timed |-> FALSE]

NoCalls == [decoded |-> FALSE, chats |-> <<>>]

\* raise HTTPException(status_code, detail)
HTTPError(status) ==
    [status |-> status, body |-> "detail", success |-> FALSE, results |-> <<>>,
     timed |-> FALSE]

\* return ParseResponse(success, message, results, processing_time)
ParseResponse(success, results) ==
    [status |-> 200, body |-> "ParseResponse", success |-> success, results |-> results,
     timed |-> TRUE]

(***************************************************************************)
(* Auth gate                                                               *)
(***************************************************************************)
\* security = HTTPBearer(): without a well-formed "Authorization: Bearer x"
\* header the dependency raises before verify_api_key runs; 0 is "passed"
security(authorization, reject_status) ==
    IF authorization.scheme = "" \/ authorization.credentials = "" THEN reject_status
    ELSE IF authorization.scheme # "Bearer" THEN reject_status
    ELSE 0

\* the status HTTPBearer rejects with depends on the framework release
BearerRejectStatuses == {401, 403}

\* the gate with the membership test left out
verify_api_key_Open(keys, credentials) == 0

\* verify_api_key: 0 is "return True"
verify_api_key(keys, credentials) ==
    IF keys = {} THEN 0
    ELSE IF credentials \notin keys THEN 401
    ELSE 0

\* verify_api_key_header: defined, but no endpoint depends on it
verify_api_key_header(keys, x_api_key) ==
    IF keys = {} THEN 0
    ELSE IF x_api_key = "" \/ x_api_key \notin keys THEN 401
    ELSE 0

\* Depends(verify_api_key) with its sub-dependency Depends(security)
AuthGate(keys, auth, reject_status) ==
    IF security(auth.authorization, reject_status) # 0
    THEN security(auth.authorization, reject_status)
    ELSE verify_api_key(keys, auth.authorization.credentials)

(***************************************************************************)
(* Decoding                                                                *)
(***************************************************************************)
\* base64.b64decode
b64decode(payload) ==
    CASE payload = "b64(image)" -> "image"
      [] payload = "b64(garbage)" -> "garbage"
      [] OTHER -> "raise"

\* Image.open(io.BytesIO(data)).convert("RGB")
ImageOpen(data) == IF data = "image" THEN "ok" ELSE "raise"

\* base64_to_image: "ok", or HTTPException(400) for any failure
base64_to_image(base64_str) ==
    LET payload == IF base64_str[1] = "data:image/png;base64"
                   THEN (IF Len(base64_str) >= 2 THEN base64_str[2] ELSE "raise")
                   ELSE base64_str[1]
    IN  IF payload = "raise" \/ b64decode(payload) = "raise" THEN 400
        ELSE IF ImageOpen(b64decode(payload)) = "raise" THEN 400
        ELSE 0

\* the upload endpoints' checks of the file (lines 404-417): 0 or 400
AllowedExtensions == {".jpg", ".jpeg", ".png", ".bmp", ".tiff", ".webp"}

\* content_type.startswith('image/')
IsImageType(content_type) == content_type \in {"image/png", "image/jpeg"}

\* os.path.splitext(filename.lower())[1]
Ext(filename) == IF filename = "a.png" THEN ".png" ELSE IF filename = "a.txt" THEN ".txt" ELSE ""

CheckUpload(file) ==
    IF file.filename = "" THEN 400
    ELSE IF file.content_type # "" /\ ~IsImageType(file.content_type) THEN 400
    ELSE IF file.content_type = "" /\ Ext(file.filename) \notin AllowedExtensions THEN 400
    ELSE 0

(***************************************************************************)
(* Endpoints: the response and the calls made, for request r, inference    *)
(* outcome i and the framework's bearer-rejection status rs                *)
(***************************************************************************)
Out(response, decoded, chats) ==
    [resp |-> response, calls |-> [decoded |-> decoded, chats |-> chats]]

\* GET /
root(r) ==
    Out([status |-> 200, body |-> "info", success |-> FALSE, results |-> <<>>,
         timed |-> FALSE], FALSE, <<>>)

\* GET /health
health_check(r) ==
    Out([status |-> 200, body |-> "health", success |-> FALSE, results |-> <<>>,
         timed |-> TRUE], FALSE, <<>>)

\* the endpoint with HTTPException caught by the generic handler
parse_page_Structured(keys, mdl, r, i, rs) ==
    IF AuthGate(keys, r.auth, rs) # 0 THEN Out(HTTPError(AuthGate(keys, r.auth, rs)), FALSE, <<>>)
    ELSE IF mdl = "None" THEN Out(HTTPError(503), FALSE, <<>>)
    ELSE IF base64_to_image(r.image_base64) # 0 THEN Out(HTTPError(400), TRUE, <<>>)
    ELSE LET p == process_page_api(i.layout, Dims, r.max_batch_size, i.ws, i.fault)
         IN  IF p.raised THEN Out(ParseResponse(FALSE, <<>>), TRUE, p.chats)
             ELSE Out(ParseResponse(TRUE, p.results), TRUE, p.chats)

\* POST /parse_page
parse_page(keys, mdl, r, i, rs) ==
    IF AuthGate(keys, r.auth, rs) # 0 THEN Out(HTTPError(AuthGate(keys, r.auth, rs)), FALSE, <<>>)
    ELSE IF mdl = "None" THEN Out(HTTPError(503), FALSE, <<>>)
    ELSE IF base64_to_image(r.image_base64) # 0 THEN Out(HTTPError(400), TRUE, <<>>)
    ELSE LET p == process_page_api(i.layout, Dims, r.max_batch_size, i.ws, i.fault)
         IN  IF p.raised THEN Out(HTTPError(500), TRUE, p.chats)
             ELSE Out(ParseResponse(TRUE, p.results), TRUE, p.chats)

\* the endpoint without its element_type check
parse_element_NoTypeCheck(keys, mdl, r, i, rs) ==
    IF AuthGate(keys, r.auth, rs) # 0 THEN Out(HTTPError(AuthGate(keys, r.auth, rs)), FALSE, <<>>)
    ELSE IF mdl = "None" THEN Out(HTTPError(503), FALSE, <<>>)
    ELSE IF base64_to_image(r.image_base64) # 0 THEN Out(HTTPError(400), TRUE, <<>>)
    ELSE LET p == process_element_api(r.element_type, i.ws, i.fault)
         IN  IF p.raised THEN Out(HTTPError(500), TRUE, p.chats)
             ELSE Out(ParseResponse(TRUE, p.results), TRUE, p.chats)

\* POST /parse_element
parse_element(keys, mdl, r, i, rs) ==
    IF AuthGate(keys, r.auth, rs) # 0 THEN Out(HTTPError(AuthGate(keys, r.auth, rs)), FALSE, <<>>)
    ELSE IF mdl = "None" THEN Out(HTTPError(503), FALSE, <<>>)
    ELSE IF r.element_type \notin {"text", "table", "formula"}
    THEN Out(HTTPError(400), FALSE, <<>>)
    ELSE IF base64_to_image(r.image_base64) # 0 THEN Out(HTTPError(400), TRUE, <<>>)
    ELSE LET p == process_element_api(r.element_type, i.ws, i.fault)
         IN  IF p.raised THEN Out(HTTPError(500), TRUE, p.chats)
             ELSE Out(ParseResponse(TRUE, p.results), TRUE, p.chats)

\* the endpoint without its `model is None` check
upload_parse_page_NoModelCheck(keys, mdl, r, i, rs) ==
    IF AuthGate(keys, r.auth, rs) # 0 THEN Out(HTTPError(AuthGate(keys, r.auth, rs)), FALSE, <<>>)
    ELSE IF CheckUpload(r.file) # 0 THEN Out(HTTPError(400), FALSE, <<>>)
    ELSE IF r.file.contents = "empty" THEN Out(HTTPError(400), FALSE, <<>>)
    ELSE IF ImageOpen(r.file.contents) = "raise" THEN Out(ParseResponse(FALSE, <<>>), TRUE, <<>>)
    ELSE LET p == process_page_api(i.layout, Dims, r.max_batch_size, i.ws, i.fault)
         IN  IF p.raised THEN Out(HTTPError(500), TRUE, p.chats)
             ELSE Out(ParseResponse(TRUE, p.results), TRUE, p.chats)

\* POST /upload_parse_page
upload_parse_page(keys, mdl, r, i, rs) ==
    IF AuthGate(keys, r.auth, rs) # 0 THEN Out(HTTPError(AuthGate(keys, r.auth, rs)), FALSE, <<>>)
    ELSE IF mdl = "None" THEN Out(HTTPError(503), FALSE, <<>>)
    ELSE IF CheckUpload(r.file) # 0 THEN Out(HTTPError(400), FALSE, <<>>)
    ELSE IF r.file.contents = "empty" THEN Out(HTTPError(400), FALSE, <<>>)
    ELSE IF ImageOpen(r.file.contents) = "raise" THEN Out(ParseResponse(FALSE, <<>>), TRUE, <<>>)
    ELSE LET p == process_page_api(i.layout, Dims, r.max_batch_size, i.ws, i.fault)
         IN  IF p.raised THEN Out(HTTPError(500), TRUE, p.chats)
             ELSE Out(ParseResponse(TRUE, p.results), TRUE, p.chats)

\* POST /upload_parse_element
upload_parse_element(keys, mdl, r, i, rs) ==
    IF AuthGate(keys, r.auth, rs) # 0 THEN Out(HTTPError(AuthGate(keys, r.auth, rs)), FALSE, <<>>)
    ELSE IF mdl = "None" THEN Out(HTTPError(503), FALSE, <<>>)
    ELSE IF CheckUpload(r.file) # 0 THEN Out(HTTPError(400), FALSE, <<>>)
    ELSE IF r.element_type \notin {"text", "table", "formula"}
    THEN Out(HTTPError(400), FALSE, <<>>)
    ELSE IF r.file.contents = "empty" THEN Out(HTTPError(400), FALSE, <<>>)
    ELSE IF ImageOpen(r.file.contents) = "raise" THEN Out(ParseResponse(FALSE, <<>>), TRUE, <<>>)
    ELSE LET p == process_element_api(r.element_type, i.ws, i.fault)
         IN  IF p.raised THEN Out(HTTPError(500), TRUE, p.chats)
             ELSE Out(ParseResponse(TRUE, p.results), TRUE, p.chats)

(***************************************************************************)
(* The requests clients send and what the model does for them              *)
(***************************************************************************)
Request(ep, auth, b64, file, et, mbs) ==
    [endpoint |-> ep, auth |-> auth, image_base64 |-> b64, file |-> file,
     element_type |-> et, max_batch_size |-> mbs]

GetRequests(ep) == {Request(ep, a, <<>>, NoFile, "", 0) : a \in AuthCases}

PageRequests ==
    {Request("/parse_page", a, b, NoFile, "", m) :
        a \in AuthCases, b \in Base64Inputs, m \in BatchSizes}

ElementRequests ==
    {Request("/parse_element", a, b, NoFile, e, 0) :
        a \in AuthCases, b \in Base64Inputs, e \in ElementTypes}

UploadPageRequests ==
    {Request("/upload_parse_page", a, <<>>, f, "", m) :
        a \in AuthCases, f \in Files, m \in BatchSizes}

UploadElementRequests ==
    {Request("/upload_parse_element", a, <<>>, f, e, 0) :
        a \in AuthCases, f \in Files, e \in ElementTypes}

\* outcomes of the model for a page: a layout and the answers' whitespace,
\* or a call that raises
PageInferences ==
    [layout : PageLayouts, ws : Whitespace, fault : {"none"}]
    \cup [layout : {<<>>}, ws : {"none"}, fault : {"stage1"}]
    \cup [layout : PageLayouts, ws : {"none"}, fault : {"stage2"}]

ElementInferences == [layout : {<<>>}, ws : Whitespace, fault : Faults]

(***************************************************************************)
(* Actions                                                                 *)
(***************************************************************************)
Init ==
    /\ phase = "boot"
    /\ API_KEYS = {}
    /\ model = "None"
    /\ req = NoReq
    /\ inf = NoInf
    /\ resp = NoResp
    /\ calls = NoCalls

Range(f) == {f[x] : x \in DOMAIN f}

\* init_api_keys
init_api_keys(api_keys) == Range(api_keys)

\* lifespan: load the keys, then the model; a model that fails to load
\* aborts the startup
lifespan ==
    /\ phase = "boot"
    /\ \E api_keys \in EnvKeyLists, loaded \in BOOLEAN :
        /\ API_KEYS' = IF api_keys # <<>> THEN init_api_keys(api_keys) ELSE API_KEYS
        /\ model' = IF loaded THEN "DOLPHIN" ELSE model
        /\ phase' = IF loaded THEN "serving" ELSE "failed"
    /\ UNCHANGED <<req, inf, resp, calls>>

\* a handler that adds the token of a served request to the key set
Serve_LearnsKey(r, i, out) ==
    /\ phase = "serving"
    /\ req' = r
    /\ inf' = i
    /\ resp' = out.resp
    /\ calls' = out.calls
    /\ phase' = "responded"
    /\ API_KEYS' = IF out.resp.status = 200 /\ r.auth.authorization.credentials # ""
                   THEN API_KEYS \cup {r.auth.authorization.credentials}
                   ELSE API_KEYS
    /\ UNCHANGED model

Serve(r, i, out) ==
    /\ phase = "serving"
    /\ req' = r
    /\ inf' = i
    /\ resp' = out.resp
    /\ calls' = out.calls
    /\ phase' = "responded"
    /\ UNCHANGED <<API_KEYS, model>>

\* the model's outcome is drawn only for a request that reaches the model
Reaches(out) == out.calls.chats # <<>>

GetRoot ==
    /\ phase = "serving"
    /\ \E r \in GetRequests("/") : Serve(r, NoInf, root(r))

GetHealth ==
    /\ phase = "serving"
    /\ \E r \in GetRequests("/health") : Serve(r, NoInf, health_check(r))

PostParsePage ==
    /\ phase = "serving"
    /\ \E r \in PageRequests, rs \in BearerRejectStatuses, i \in PageInferences :
        /\ i = NoInf \/ Reaches(parse_page(API_KEYS, model, r, NoInf, 401))
        /\ rs = 401 \/ security(r.auth.authorization, 1) = 1
        /\ Serve(r, i, parse_page(API_KEYS, model, r, i, rs))

PostParseElement ==
    /\ phase = "serving"
    /\ \E r \in ElementRequests, rs \in BearerRejectStatuses, i \in ElementInferences :
        /\ i = NoInf \/ Reaches(parse_element(API_KEYS, model, r, NoInf, 401))
        /\ rs = 401 \/ security(r.auth.authorization, 1) = 1
        /\ Serve(r, i, parse_element(API_KEYS, model, r, i, rs))

PostUploadParsePage ==
    /\ phase = "serving"
    /\ \E r \in UploadPageRequests, rs \in BearerRejectStatuses, i \in PageInferences :
        /\ i = NoInf \/ Reaches(upload_parse_page(API_KEYS, model, r, NoInf, 401))
        /\ rs = 401 \/ security(r.auth.authorization, 1) = 1
        /\ Serve(r, i, upload_parse_page(API_KEYS, model, r, i, rs))

PostUploadParseElement ==
    /\ phase = "serving"
    /\ \E r \in UploadElementRequests, rs \in BearerRejectStatuses, i \in ElementInferences :
        /\ i = NoInf \/ Reaches(upload_parse_element(API_KEYS, model, r, NoInf, 401))
        /\ rs = 401 \/ security(r.auth.authorization, 1) = 1
        /\ Serve(r, i, upload_parse_element(API_KEYS, model, r, i, rs))

\* the response is serialized and sent; the request's data is discarded
Deliver ==
    /\ phase = "responded"
    /\ phase' = "serving"
    /\ req' = NoReq
    /\ inf' = NoInf
    /\ resp' = NoResp
    /\ calls' = NoCalls
    /\ UNCHANGED <<API_KEYS, model>>

Next ==
    \/ lifespan
    \/ GetRoot
    \/ GetHealth
    \/ PostParsePage
    \/ PostParseElement
    \/ PostUploadParsePage
    \/ PostUploadParseElement
    \/ Deliver

Spec == Init /\ [][Next]_vars

(***************************************************************************)
(* The app served without its lifespan having run (an ASGI server that     *)
(* sends no lifespan events): the module globals keep their import-time    *)
(* values, model = None and API_KEYS = set()                               *)
(***************************************************************************)
InitNoLifespan ==
    /\ phase = "serving"
    /\ API_KEYS = {}
    /\ model = "None"
    /\ req = NoReq
    /\ inf = NoInf
    /\ resp = NoResp
    /\ calls = NoCalls

NextNoLifespan ==
    \/ GetRoot
    \/ GetHealth
    \/ PostParsePage
    \/ PostParseElement
    \/ PostUploadParsePage
    \/ PostUploadParseElement
    \/ Deliver

SpecNoLifespan == InitNoLifespan /\ [][NextNoLifespan]_vars

(***************************************************************************)
(* process_elements_api on its own: the inputs are drawn at the start and  *)
(* the one action applies the function to them                             *)
(***************************************************************************)
ElementsInputs ==
    [layout : Layouts, ws : Whitespace, fault : {"none"}]
    \cup [layout : Layouts, ws : {"none"}, fault : {"stage2"}]

InitElements ==
    /\ phase = "elements"
    /\ API_KEYS = {}
    /\ model = "DOLPHIN"
    /\ \E m \in BatchSizes : req = [NoReq EXCEPT !.max_batch_size = m]
    /\ inf \in ElementsInputs
    /\ resp = NoResp
    /\ calls = NoCalls

CallProcessElements ==
    /\ phase = "elements"
    /\ LET r == process_elements_api(inf.layout, Dims, req.max_batch_size, inf.ws, inf.fault)
       IN  /\ phase' = IF r.raised THEN "elements_raised" ELSE "elements_returned"
           /\ resp' = [NoResp EXCEPT !.results = r.results]
           /\ calls' = [decoded |-> FALSE, chats |-> r.chats]
    /\ UNCHANGED <<API_KEYS, model, req, inf>>

NextElements == CallProcessElements

SpecElements == InitElements /\ [][NextElements]_vars

(***************************************************************************)
(* Vocabulary of the properties                                            *)
(***************************************************************************)
PageEndpoints == {"/parse_page", "/upload_parse_page"}
ElementEndpoints == {"/parse_element", "/upload_parse_element"}
PostEndpoints == PageEndpoints \cup ElementEndpoints

Responded == phase = "responded"

AuthError == resp.status \in {401, 403}

\* process_elements_api returned its list
ElementsReturned == phase = "elements_returned"

\* the crop of a layout element is non-empty / zero-area after clamping
CropOf(e) == process_coordinates(e.bbox, Dims, <<>>).crop
OrigOf(e) == process_coordinates(e.bbox, Dims, <<>>).orig
NonEmptyCrop(e) == ~e.raises /\ CroppedSize(CropOf(e)) > 0
ZeroAreaCrop(e) == ~e.raises /\ CroppedSize(CropOf(e)) = 0

NonFigures(l) == {k \in 1..Len(l) : NonEmptyCrop(l[k]) /\ l[k].label # "fig"}
Figures(l) == {k \in 1..Len(l) : NonEmptyCrop(l[k]) /\ l[k].label = "fig"}
Skipped(l) == {k \in 1..Len(l) : ZeroAreaCrop(l[k])}
Raising(l) == {k \in 1..Len(l) : l[k].raises}
Survivors(l) == NonFigures(l) \cup Figures(l)

\* the position an element takes in the traversal: the elements handled
\* without an error before it
Slot(l, k) == Cardinality({j \in 1..(k - 1) : ~l[j].raises})

\* the k-th surviving element's place in the result list
Rank(l, k) == Cardinality({j \in Survivors(l) : j <= k})

\* result entry x is the entry of layout element e
EntryOf(x, e) == x.label = e.label /\ x.bbox = OrigOf(e)

(***************************************************************************)
(* C1: a returned page has one entry per non-figure element and per figure *)
(* with a non-empty crop (N+M entries), and the entries' reading_order     *)
(* values are pairwise distinct and lie in 0 .. N+M+skipped-1.             *)
(***************************************************************************)
C1_CountAndReadingOrders ==
    ElementsReturned =>
        LET l == inf.layout
            n == Cardinality(NonFigures(l))
            m == Cardinality(Figures(l))
            skipped == Cardinality(Skipped(l))
            rs == resp.results
        IN  /\ Len(rs) = n + m
            /\ \A a \in 1..Len(rs) :
                /\ 0 <= rs[a].reading_order
                /\ rs[a].reading_order < n + m + skipped
            /\ \A a, b \in 1..Len(rs) :
                a # b => rs[a].reading_order # rs[b].reading_order

\* a page with text, a figure and a zero-area box was returned
C1_Witness ==
    /\ ElementsReturned
    /\ NonFigures(inf.layout) # {}
    /\ Figures(inf.layout) # {}
    /\ Skipped(inf.layout) # {}
    /\ Len(resp.results) = 2

(***************************************************************************)
(* C5: the returned list is strictly increasing in reading_order and its   *)
(* entries are those of the surviving layout elements, in layout order.    *)
(***************************************************************************)
C5_SortedInLayoutOrder ==
    ElementsReturned =>
        LET l == inf.layout
            rs == resp.results
        IN  /\ \A a \in 1..(Len(rs) - 1) : rs[a].reading_order < rs[a + 1].reading_order
            /\ Len(rs) = Cardinality(Survivors(l))
            /\ \A k \in Survivors(l) : EntryOf(rs[Rank(l, k)], l[k])

\* a text element that precedes a figure in the layout precedes it in the result
C5_Witness ==
    /\ ElementsReturned
    /\ Len(inf.layout) = 3
    /\ Survivors(inf.layout) = {1, 2, 3}
    /\ inf.layout[1].label = "para"
    /\ inf.layout[2].label = "fig"
    /\ inf.layout[3].label = "tab"
    /\ resp.results[1].label = "para"

(***************************************************************************)
(* C6: a zero-area element has no entry in the result, and the elements    *)
(* right before and right after it appear with the reading_order of their  *)
(* own places in the traversal: one below and one above the place the      *)
(* zero-area element took.                                                 *)
(***************************************************************************)
HasEntry(rs, e, ro) == \E a \in 1..Len(rs) : EntryOf(rs[a], e) /\ rs[a].reading_order = ro

C6_ZeroAreaExcluded ==
    ElementsReturned =>
        LET l == inf.layout
            rs == resp.results
        IN  \A k \in Skipped(l) :
                /\ \A a \in 1..Len(rs) : rs[a].reading_order # Slot(l, k)
                /\ (k - 1) \in Survivors(l) => HasEntry(rs, l[k - 1], Slot(l, k) - 1)
                /\ (k + 1) \in Survivors(l) => HasEntry(rs, l[k + 1], Slot(l, k) + 1)

\* a zero-area box between two surviving elements
C6_Witness ==
    /\ ElementsReturned
    /\ Len(inf.layout) = 3
    /\ Skipped(inf.layout) = {2}
    /\ Survivors(inf.layout) = {1, 3}
    /\ Len(resp.results) = 2
    /\ resp.results[2].reading_order = 2

(***************************************************************************)
(* C10: when handling one element raises, the page is still returned and   *)
(* every other element with a non-empty crop has its entry.                *)
(***************************************************************************)
\* process_elements_api was called and its batched model call did not fail
ElementsProcessed ==
    /\ phase \in {"elements_returned", "elements_raised"}
    /\ inf.fault = "none"

C10_BadBoxSkipped ==
    (ElementsProcessed /\ Raising(inf.layout) # {}) =>
        /\ ElementsReturned
        /\ Len(resp.results) = Cardinality(Survivors(inf.layout))
        /\ \A k \in Survivors(inf.layout) :
            \E a \in 1..Len(resp.results) : EntryOf(resp.results[a], inf.layout[k])

\* an element that raises between two elements that are returned
C10_Witness ==
    /\ ElementsReturned
    /\ Len(inf.layout) = 3
    /\ Raising(inf.layout) = {2}
    /\ Survivors(inf.layout) = {1, 3}
    /\ Len(resp.results) = 2

(***************************************************************************)
(* Auth gate and error handling of the endpoints                           *)
(***************************************************************************)
\* the request carries a key the gate accepts
Authorized == AuthGate(API_KEYS, req.auth, 401) = 0

ValidElementTypes == {"text", "table", "formula"}

(***************************************************************************)
(* C2: with no API keys configured, a request without an Authorization     *)
(* header is never rejected by the auth gate, on any endpoint.             *)
(***************************************************************************)
C2_NoKeysNoHeaderReachable ==
    (Responded /\ API_KEYS = {} /\ req.auth.authorization = NoHeader) => ~AuthError

(***************************************************************************)
(* C3: with keys configured, a POST parse request with a bearer token      *)
(* outside the key set, or with no key at all, gets an auth error and is   *)
(* not processed; one with a bearer token of the key set passes the gate.  *)
(***************************************************************************)
C3_KeysEnforced ==
    (Responded /\ API_KEYS # {} /\ req.endpoint \in PostEndpoints) =>
        LET a == req.auth.authorization
        IN  /\ (a.scheme = "Bearer" /\ a.credentials \in API_KEYS) => ~AuthError
            /\ ((a.scheme = "Bearer" /\ a.credentials \notin API_KEYS)
                \/ (a = NoHeader /\ req.auth.x_api_key = ""))
               => (AuthError /\ resp.body = "detail" /\ calls = NoCalls)

\* a wrong bearer token was turned away by an upload endpoint
C3_Witness ==
    /\ Responded
    /\ API_KEYS = {"k1"}
    /\ req.endpoint = "/upload_parse_element"
    /\ req.auth.authorization = [scheme |-> "Bearer", credentials |-> "k2"]
    /\ resp.status = 401

(***************************************************************************)
(* C4 as stated: an exception raised inside process_page_api or            *)
(* process_element_api is answered with a structured failure response      *)
(* (success=false, message, elapsed time).                                 *)
(***************************************************************************)
InferenceRaised ==
    /\ Responded
    /\ req.endpoint \in PostEndpoints
    /\ \/ inf.fault = "stage1"
       \/ /\ inf.fault = "stage2"
          /\ req.endpoint \in ElementEndpoints \/ NonFigures(inf.layout) # {}

StructuredFailure == resp.body = "ParseResponse" /\ ~resp.success /\ resp.timed

C4_FailuresStructured == InferenceRaised => StructuredFailure

(***************************************************************************)
(* C4: an exception raised inside process_page_api or process_element_api  *)
(* reaches the client as an HTTP 500 error; a structured failure response  *)
(* is given only when an upload endpoint cannot open the uploaded bytes as *)
(* an image, before the model is called.                                   *)
(***************************************************************************)
C4_FailuresAreHttp500 ==
    /\ InferenceRaised => resp = HTTPError(500)
    /\ (Responded /\ StructuredFailure) =>
        /\ req.endpoint \in {"/upload_parse_page", "/upload_parse_element"}
        /\ req.file.contents = "garbage"
        /\ calls.chats = <<>>

\* the batched call of a page raised and the client got the HTTP 500
C4_Witness ==
    /\ InferenceRaised
    /\ req.endpoint = "/parse_page"
    /\ inf.fault = "stage2"
    /\ Len(calls.chats) = 2
    /\ resp.status = 500

(***************************************************************************)
(* C7: with keys configured, a POST parse request that presents a key of   *)
(* the set in the X-API-Key header passes the auth gate.                   *)
(***************************************************************************)
C7_HeaderKeyAccepted ==
    (Responded /\ API_KEYS # {} /\ req.endpoint \in PostEndpoints
        /\ req.auth.x_api_key \in API_KEYS) => ~AuthError

(***************************************************************************)
(* C8: an authorized element request whose element_type is not text, table *)
(* or formula gets HTTP 400, and neither the image decoding nor model.chat *)
(* runs for it.                                                            *)
(***************************************************************************)
C8_BadElementTypeRejected ==
    (Responded /\ req.endpoint \in ElementEndpoints /\ Authorized
        /\ req.element_type \notin ValidElementTypes) =>
        /\ resp = HTTPError(400)
        /\ ~calls.decoded
        /\ calls.chats = <<>>

\* "diagram" sent with a decodable image
C8_Witness ==
    /\ Responded
    /\ req.endpoint = "/parse_element"
    /\ Authorized
    /\ req.element_type = "diagram"
    /\ req.image_base64 = <<"b64(image)">>
    /\ resp.status = 400

(***************************************************************************)
(* C9: malformed input (a base64 string that is no image, an empty upload, *)
(* an upload that is no image) is answered with an HTTP 4xx error on every *)
(* parse endpoint, never with an HTTP 200 body.                            *)
(***************************************************************************)
MalformedInput ==
    \/ /\ req.endpoint \in {"/parse_page", "/parse_element"}
       /\ req.image_base64 \notin
            {<<"b64(image)">>, <<"data:image/png;base64", "b64(image)">>}
    \/ /\ req.endpoint \in {"/upload_parse_page", "/upload_parse_element"}
       /\ req.file.contents \in {"empty", "garbage"}

C9_MalformedInputClientError ==
    (Responded /\ Authorized /\ MalformedInput) =>
        (resp.status >= 400 /\ resp.status < 500)

(***************************************************************************)
(* C11: for one page parse the batched recognition call is made at most    *)
(* once: once when a text/table crop is queued, never otherwise; and it is *)
(* made with max_batch_size = 1 whatever the request asked for.            *)
(***************************************************************************)
\* the model.chat calls of this request other than the layout pass
BatchedCalls ==
    {c \in 1..Len(calls.chats) : calls.chats[c].prompts # <<LayoutPrompt>>}

\* the layout pass returned, so process_elements_api ran
LayoutParsed == calls.chats # <<>> /\ inf.fault # "stage1"

C11_OneBatchedCallOfSizeOne ==
    (Responded /\ req.endpoint \in PageEndpoints) =>
        /\ Cardinality(BatchedCalls) <= 1
        /\ \A c \in BatchedCalls : calls.chats[c].max_batch_size = 1
        /\ LayoutParsed =>
            (Cardinality(BatchedCalls) = 1 <=> NonFigures(inf.layout) # {})
        /\ ~LayoutParsed => BatchedCalls = {}

\* an upload asking for batches of 4 whose crops went out in a batch of 1
C11_Witness ==
    /\ Responded
    /\ req.endpoint = "/upload_parse_page"
    /\ req.max_batch_size = 4
    /\ Cardinality(NonFigures(inf.layout)) = 2
    /\ Len(calls.chats) = 2
    /\ calls.chats[2].max_batch_size = 1
    /\ resp.status = 200

(***************************************************************************)
(* C12: while the model handle is None, an authorized request to any of    *)
(* the four POST parse endpoints gets HTTP 503, and neither the input      *)
(* decoding nor model.chat runs for it.                                    *)
(***************************************************************************)
C12_NoModelServiceUnavailable ==
    (Responded /\ model = "None" /\ req.endpoint \in PostEndpoints /\ Authorized) =>
        /\ resp = HTTPError(503)
        /\ ~calls.decoded
        /\ calls.chats = <<>>

\* a well-formed page upload answered with 503
C12_Witness ==
    /\ Responded
    /\ model = "None"
    /\ req.endpoint = "/upload_parse_page"
    /\ Authorized
    /\ req.file = [filename |-> "a.png", content_type |-> "image/png", contents |-> "image"]
    /\ resp.status = 503

(***************************************************************************)
(* C13: once the startup is over, no request, whatever its outcome, and no *)
(* delivery of a response changes the key set API_KEYS or the model        *)
(* handle.                                                                 *)
(***************************************************************************)
KeysAndModelKept ==
    phase \in {"serving", "responded"} => (API_KEYS' = API_KEYS /\ model' = model)

C13_KeysAndModelFrozen == [][KeysAndModelKept]_vars

\* a request with a wrong key was turned away and the key set is as loaded
C13_Witness ==
    /\ Responded
    /\ API_KEYS = {"k1"}
    /\ model = "DOLPHIN"
    /\ req.auth.authorization.credentials = "k2"
    /\ resp.status = 401

(***************************************************************************)
(* C14: every element with a non-empty crop is routed by its label: a      *)
(* figure is emitted with empty text and its crop is not sent to the       *)
(* model; every other element is queued for the batched call, with the     *)
(* table prompt exactly when its label is "tab" and the text prompt        *)
(* otherwise.                                                              *)
(***************************************************************************)
ElementsCalled == phase \in {"elements_returned", "elements_raised"}

\* the place of non-figure element k in the queue
QueueRank(l, k) == Cardinality({j \in NonFigures(l) : j <= k})

PromptFor(e) == IF e.label = "tab" THEN TablePrompt ELSE TextPrompt

C14_RoutedByLabel ==
    ElementsCalled =>
        LET l == inf.layout
            nf == NonFigures(l)
            ch == calls.chats
        IN  /\ nf = {} => ch = <<>>
            /\ nf # {} =>
                /\ Len(ch) = 1
                /\ Len(ch[1].crops) = Cardinality(nf)
                /\ Len(ch[1].prompts) = Cardinality(nf)
                /\ \A k \in nf :
                    /\ ch[1].crops[QueueRank(l, k)] = CropOf(l[k])
                    /\ ch[1].prompts[QueueRank(l, k)] = PromptFor(l[k])
            /\ ElementsReturned =>
                \A k \in Figures(l) :
                    /\ resp.results[Rank(l, k)].label = "fig"
                    /\ resp.results[Rank(l, k)].text = <<>>

\* a figure, a table and a paragraph: two crops queued, one prompt each
C14_Witness ==
    /\ ElementsReturned
    /\ Len(inf.layout) = 3
    /\ Survivors(inf.layout) = {1, 2, 3}
    /\ inf.layout[1].label = "fig"
    /\ inf.layout[2].label = "tab"
    /\ inf.layout[3].label = "para"
    /\ calls.chats[1].prompts = <<TablePrompt, TextPrompt>>
    /\ resp.results[1].text = <<>>

(***************************************************************************)
(* C15: the i-th string the batched call returns ends up, stripped of its  *)
(* surrounding whitespace, in the entry that has the label, the original   *)
(* box and the reading_order of the i-th queued crop.                      *)
(***************************************************************************)
C15_ResultsReattached ==
    ElementsReturned =>
        LET l == inf.layout
        IN  \A k \in NonFigures(l) :
                LET x == resp.results[Rank(l, k)]
                IN  /\ x.label = l[k].label
                    /\ x.bbox = OrigOf(l[k])
                    /\ x.reading_order = Slot(l, k)
                    /\ x.text = Transcribe(PromptFor(l[k]), CropOf(l[k]), "none")

\* two different crops whose answers came back with whitespace around them
C15_Witness ==
    /\ ElementsReturned
    /\ inf.ws = "around"
    /\ Len(inf.layout) = 3
    /\ NonFigures(inf.layout) = {1, 3}
    /\ Figures(inf.layout) = {2}
    /\ CropOf(inf.layout[1]) # CropOf(inf.layout[3])
    /\ Len(resp.results) = 3
    /\ resp.results[3].text = Transcribe(PromptFor(inf.layout[3]), CropOf(inf.layout[3]), "none")

====
